---- MODULE Spec2Model ----
(***************************************************************************)
(* azure.functions_parser: the validate_request decorator.                 *)
(*                                                                         *)
(* A handler is decorated once (its signature is analysed into a body      *)
(* binding and a query-parameter model), and the wrapped handler then      *)
(* serves requests: parse, call the handler, normalise its result.         *)
(***************************************************************************)
EXTENDS Integers, Sequences, FiniteSets, TLC

VARIABLES
    handler,             \* the decorated function: its signature and whether it is a coroutine function
    contract,            \* what _validate_handler_signature returned (or raised)
    pc,                  \* position of the decorator / of the wrapper serving the current request
    req,                 \* the HttpRequest being served
    kwargs_or_response,  \* what parse_request produced for req
    errors,              \* the ErrorDetails list parse_request handed to the formatter
    result,              \* what the handler returned
    response,            \* the HttpResponse the wrapper returned
    trace                \* the phases the wrapper went through for req, in order

vars == <<handler, contract, pc, req, kwargs_or_response, errors, result, response, trace>>

----------------------------------------------------------------------------
(* Bounds *)

\* number of parameters a handler declares after the request carrier
MaxParams == 2
\* longest error location path handed to the formatter on its own
MaxLocLen == 3
\* longest error list handed to the formatter on its own
MaxErrors == 2

----------------------------------------------------------------------------
(* Values *)

None == [t |-> "None", s |-> "", n |-> 0]
StrVal(s) == [t |-> "str", s |-> s, n |-> 0]
IntVal(n) == [t |-> "int", s |-> "", n |-> n]
BytesVal(s) == [t |-> "bytes", s |-> s, n |-> 0]
DictVal(d) == [t |-> "dict", d |-> d]

\* the empty dict
EmptyDict == [k \in {} |-> None]

\* int(s) for the decimal strings the requests carry
NumericStrings == {"25"}
ParseInt(s) == CASE s = "25" -> 25

----------------------------------------------------------------------------
(* Pydantic model classes a handler may annotate a parameter with *)

Field(name, type, required) == [name |-> name, type |-> type, required |-> required]

\* class UserBody(BaseModel): name: str; age: int; email: Optional[str] = None
UserBody == << Field("name", "str", TRUE), Field("age", "int", TRUE), Field("email", "str", FALSE) >>

\* a model class with no required field: age: Optional[int] = None; email: Optional[str] = None
Filter == << Field("age", "int", FALSE), Field("email", "str", FALSE) >>

ModelClasses == {"UserBody", "Filter"}

ModelFields(cls) == CASE cls = "UserBody" -> UserBody
                      [] cls = "Filter" -> Filter

\* isinstance(obj, type) and issubclass(obj, BaseModel)
_is_pydantic_model(annotation) == annotation \in ModelClasses

----------------------------------------------------------------------------
(* Handler signatures *)

Param(name, annotation, has_default) ==
    [name |-> name, annotation |-> annotation, has_default |-> has_default]

\* Python rejects a signature that declares a name twice: names go by position
ParamNames == <<"req", "p1", "p2", "p3", "p4">>

CarrierAnnotations == {"empty", "HttpRequest", "str"}
ScalarAnnotations == {"empty", "str", "int"}

ParamChoices(i) ==
    IF i = 1
    THEN {Param(ParamNames[i], a, FALSE) : a \in CarrierAnnotations}
    ELSE {Param(ParamNames[i], a, d) : a \in ScalarAnnotations, d \in BOOLEAN}
         \cup {Param(ParamNames[i], a, FALSE) : a \in ModelClasses}

RECURSIVE SignaturesOfLen(_)
SignaturesOfLen(n) ==
    IF n = 0 THEN {<<>>}
    ELSE {Append(s, p) : s \in SignaturesOfLen(n - 1), p \in ParamChoices(n)}

Signatures == UNION {SignaturesOfLen(n) : n \in 0..(MaxParams + 1)}

Handlers == [sig : Signatures, is_async : BOOLEAN]

----------------------------------------------------------------------------
(* _validate_handler_signature *)

Tail1(s) == IF Len(s) = 0 THEN s ELSE SubSeq(s, 2, Len(s))

IsBodyParam(p) == _is_pydantic_model(p.annotation)

\* the field made required when the parameter HAS a default
model_field_from_param_inverted(param) ==
    Field(param.name,
          IF param.annotation # "empty" THEN param.annotation ELSE "Any",
          param.has_default)

\* (annotation, default) of a query parameter; Ellipsis marks a required field
model_field_from_param(param) ==
    Field(param.name,
          IF param.annotation # "empty" THEN param.annotation ELSE "Any",
          ~param.has_default)

RECURSIVE MapFields(_)
MapFields(ps) ==
    IF ps = <<>> THEN <<>>
    ELSE <<model_field_from_param(Head(ps))>> \o MapFields(Tail(ps))

NoBodySpec == [present |-> FALSE, param_name |-> "", model |-> ""]
_BodyParserSpec(param_name, model) == [present |-> TRUE, param_name |-> param_name, model |-> model]

NoQueryModel == [present |-> FALSE, fields |-> <<>>]
create_model(fields) == [present |-> TRUE, fields |-> fields]

Raised(exc) == [status |-> exc, body_spec |-> NoBodySpec, query_params_model |-> NoQueryModel]
Returned(body_spec, query_params_model) ==
    [status |-> "ok", body_spec |-> body_spec, query_params_model |-> query_params_model]

_validate_handler_signature(sig) ==
    IF sig = <<>> THEN Raised("InvalidRequestHandlerError")
    ELSE IF sig[1].annotation # "empty" /\ sig[1].annotation # "HttpRequest"
    THEN Raised("InvalidRequestHandlerError")
    ELSE LET params == Tail1(sig) IN
         IF params = <<>> THEN Returned(NoBodySpec, NoQueryModel)
         ELSE LET body_params == SelectSeq(params, IsBodyParam) IN
              IF body_params # <<>> /\ Len(body_params) > 1
              THEN Raised("InvalidRequestHandlerError")
              ELSE LET body_spec == IF body_params # <<>>
                                    THEN _BodyParserSpec(body_params[1].name, body_params[1].annotation)
                                    ELSE NoBodySpec
                       NotTheBody(p) == p.name # body_params[1].name
                       query_params == IF body_params # <<>>
                                       THEN SelectSeq(params, NotTheBody)
                                       ELSE params
                       query_params_model == IF query_params # <<>>
                                             THEN create_model(MapFields(query_params))
                                             ELSE NoQueryModel
                   IN Returned(body_spec, query_params_model)

----------------------------------------------------------------------------
(* The requests *)

QueryKeys == {"p1", "p2", "zz"}
QueryValues == {"25", "abc"}

\* payloads: empty, the empty object, not JSON, a complete user, a user
\* without age, a user whose age is not a number
Bodies == { "", "{}", "not json",
            "{\"name\":\"Alice\",\"age\":25}",
            "{\"name\":\"Alice\"}",
            "{\"name\":\"Alice\",\"age\":\"abc\"}" }

QueryMaps == UNION {[ks -> QueryValues] : ks \in SUBSET QueryKeys}

Requests == [params : QueryMaps, body : Bodies]

NoRequest == [params |-> EmptyDict, body |-> ""]

----------------------------------------------------------------------------
(* The schema engine: pydantic's validation of a mapping or of JSON bytes *)

Seg(s) == [is_int |-> FALSE, s |-> s, n |-> 0]
Idx(n) == [is_int |-> TRUE, s |-> "", n |-> n]

ErrorDetails(type, loc, msg, input) == [type |-> type, loc |-> loc, msg |-> msg, input |-> input]

\* lax-mode validation of one supplied value against a field's type
Coerce(type, v, coerce_numbers_to_str) ==
    CASE type = "Any" -> [ok |-> TRUE, value |-> v, type |-> "", msg |-> ""]
      [] type = "str" ->
            IF v.t = "str" THEN [ok |-> TRUE, value |-> v, type |-> "", msg |-> ""]
            ELSE IF v.t = "int" /\ coerce_numbers_to_str
            THEN [ok |-> TRUE, value |-> StrVal(ToString(v.n)), type |-> "", msg |-> ""]
            ELSE [ok |-> FALSE, value |-> v, type |-> "string_type",
                  msg |-> "Input should be a valid string"]
      [] type = "int" ->
            IF v.t = "int" THEN [ok |-> TRUE, value |-> v, type |-> "", msg |-> ""]
            ELSE IF v.t = "str" /\ v.s \in NumericStrings
            THEN [ok |-> TRUE, value |-> IntVal(ParseInt(v.s)), type |-> "", msg |-> ""]
            ELSE IF v.t = "str"
            THEN [ok |-> FALSE, value |-> v, type |-> "int_parsing",
                  msg |-> "Input should be a valid integer, unable to parse string as an integer"]
            ELSE [ok |-> FALSE, value |-> v, type |-> "int_type",
                  msg |-> "Input should be a valid integer"]

\* the errors one field contributes for the mapping data
FieldErrors(f, data, coerce_numbers_to_str) ==
    IF f.name \notin DOMAIN data
    THEN IF f.required
         THEN <<ErrorDetails("missing", <<Seg(f.name)>>, "Field required", DictVal(data))>>
         ELSE <<>>
    ELSE LET c == Coerce(f.type, data[f.name], coerce_numbers_to_str) IN
         IF c.ok THEN <<>>
         ELSE <<ErrorDetails(c.type, <<Seg(f.name)>>, c.msg, data[f.name])>>

RECURSIVE AllFieldErrors(_, _, _)
AllFieldErrors(fields, data, coerce_numbers_to_str) ==
    IF fields = <<>> THEN <<>>
    ELSE FieldErrors(Head(fields), data, coerce_numbers_to_str)
         \o AllFieldErrors(Tail(fields), data, coerce_numbers_to_str)

FieldNames(fields) == {fields[i].name : i \in 1..Len(fields)}

FieldNamed(fields, name) == fields[CHOOSE i \in 1..Len(fields) : fields[i].name = name]

\* Model.model_validate(data): extra keys are ignored, errors come in field order
model_validate(fields, data, coerce_numbers_to_str) ==
    LET errs == AllFieldErrors(fields, data, coerce_numbers_to_str) IN
    IF errs # <<>>
    THEN [ok |-> FALSE, errors |-> errs, values |-> EmptyDict, fields_set |-> {}]
    ELSE [ok |-> TRUE, errors |-> <<>>,
          values |-> [name \in FieldNames(fields) |->
                        IF name \in DOMAIN data
                        THEN Coerce(FieldNamed(fields, name).type, data[name],
                                    coerce_numbers_to_str).value
                        ELSE None],
          fields_set |-> FieldNames(fields) \cap DOMAIN data]

\* model_dump() without exclude_unset: defaulted fields are dumped too
model_dump_all(valid) == valid.values

\* instance.model_dump(exclude_unset=True)
model_dump_exclude_unset(valid) == [name \in valid.fields_set |-> valid.values[name]]

\* the JSON document the payload bytes hold, if they hold one
JsonLoads(bytes) ==
    CASE bytes = "{}" -> [ok |-> TRUE, obj |-> EmptyDict]
      [] bytes = "{\"name\":\"Alice\",\"age\":25}" ->
            [ok |-> TRUE, obj |-> ("name" :> StrVal("Alice")) @@ ("age" :> IntVal(25))]
      [] bytes = "{\"name\":\"Alice\"}" ->
            [ok |-> TRUE, obj |-> ("name" :> StrVal("Alice"))]
      [] bytes = "{\"name\":\"Alice\",\"age\":\"abc\"}" ->
            [ok |-> TRUE, obj |-> ("name" :> StrVal("Alice")) @@ ("age" :> StrVal("abc"))]
      [] OTHER -> [ok |-> FALSE, obj |-> EmptyDict]

ModelInstance(cls, values) == [t |-> "model", cls |-> cls, d |-> values]

\* Model.model_validate_json(bytes): a payload that is not JSON is rejected
\* with the payload itself as the error's input
model_validate_json(cls, bytes) ==
    LET doc == JsonLoads(bytes) IN
    IF ~doc.ok
    THEN [ok |-> FALSE, value |-> ModelInstance(cls, EmptyDict),
          errors |-> <<ErrorDetails("json_invalid", <<>>, "Invalid JSON", BytesVal(bytes))>>]
    ELSE LET v == model_validate(ModelFields(cls), doc.obj, FALSE) IN
         [ok |-> v.ok, value |-> ModelInstance(cls, v.values), errors |-> v.errors]

----------------------------------------------------------------------------
(* Responses *)

HttpResponse(body, status_code, mimetype) ==
    [body |-> body, status_code |-> status_code, mimetype |-> mimetype]

NoResponse == HttpResponse(None, 0, "")

\* the text json.dumps(d) produces for a dict of plain values
JsonDict(d) == [t |-> "json_dict", d |-> d]
\* the text instance.model_dump_json() produces
JsonModel(instance) == [t |-> "json_model", cls |-> instance.cls, d |-> instance.d]
\* the text json.dumps(response_payload) produces
JsonPayload(payload) == [t |-> "json", payload |-> payload]

\* json.dumps raises TypeError on a value that holds bytes
JsonSerializable(v) ==
    \/ v.t \in {"None", "str", "int"}
    \/ v.t = "dict" /\ \A k \in DOMAIN v.d : v.d[k].t \in {"None", "str", "int"}

----------------------------------------------------------------------------
(* _response_from_validation_error *)

LocStr(x) == IF x.is_int THEN "[" \o ToString(x.n) \o "]" ELSE x.s

RECURSIVE Join(_, _)
Join(sep, strs) ==
    IF strs = <<>> THEN ""
    ELSE IF Len(strs) = 1 THEN strs[1]
    ELSE strs[1] \o sep \o Join(sep, Tail(strs))

format_loc(loc) == Join(".", [i \in 1..Len(loc) |-> LocStr(loc[i])])

ErrorEntry(detail) ==
    [param |-> format_loc(detail.loc), reason |-> detail.msg,
     type |-> detail.type, input |-> detail.input]

\* either the 400 response, or the TypeError json.dumps raises
_response_from_validation_error(errs) ==
    LET response_payload == "errors" :> [i \in 1..Len(errs) |-> ErrorEntry(errs[i])] IN
    IF \A i \in 1..Len(errs) : JsonSerializable(errs[i].input)
    THEN [kind |-> "response", kwargs |-> EmptyDict,
          response |-> HttpResponse(JsonPayload(response_payload), 400, ""),
          errors |-> errs]
    ELSE [kind |-> "raise", kwargs |-> EmptyDict, response |-> NoResponse, errors |-> errs]

----------------------------------------------------------------------------
(* parse_request, as validate_request generates it from the contract *)

Kwargs(kwargs) == [kind |-> "kwargs", kwargs |-> kwargs, response |-> NoResponse, errors |-> <<>>]

\* dict(req.params) or {}
ParamsDict(r) == [k \in DOMAIN r.params |-> StrVal(r.params[k])]

\* req.get_body() with no fallback for an empty payload
BodyBytesAsIs(r) == r.body

\* req.get_body() or b"{}"
BodyBytes(r) == IF r.body = "" THEN "{}" ELSE r.body

\* the combined parser giving up after a query failure, body unvalidated
parse_request_short_circuit(c, r) ==
    IF c.query_params_model.present /\ c.body_spec.present
    THEN LET valid_params == model_validate(c.query_params_model.fields, ParamsDict(r), TRUE)
             valid_body == model_validate_json(c.body_spec.model, BodyBytes(r))
         IN IF ~valid_params.ok THEN _response_from_validation_error(valid_params.errors)
            ELSE IF ~valid_body.ok THEN _response_from_validation_error(valid_body.errors)
            ELSE Kwargs((c.body_spec.param_name :> valid_body.value)
                        @@ model_dump_exclude_unset(valid_params))
    ELSE IF c.query_params_model.present
    THEN LET valid_params == model_validate(c.query_params_model.fields, ParamsDict(r), TRUE) IN
         IF ~valid_params.ok THEN _response_from_validation_error(valid_params.errors)
         ELSE Kwargs(model_dump_exclude_unset(valid_params))
    ELSE IF c.body_spec.present
    THEN LET valid_body == model_validate_json(c.body_spec.model, BodyBytes(r)) IN
         IF ~valid_body.ok THEN _response_from_validation_error(valid_body.errors)
         ELSE Kwargs(c.body_spec.param_name :> valid_body.value)
    ELSE Kwargs(EmptyDict)

\* the parser of a handler without bindings forwarding the raw query map
parse_request_forward_params(c, r) ==
    IF c.query_params_model.present /\ c.body_spec.present
    THEN LET valid_params == model_validate(c.query_params_model.fields, ParamsDict(r), TRUE)
             valid_body == model_validate_json(c.body_spec.model, BodyBytes(r))
             kwargs1 == IF valid_params.ok THEN model_dump_exclude_unset(valid_params) ELSE EmptyDict
             kwargs2 == IF valid_body.ok
                        THEN (c.body_spec.param_name :> valid_body.value) @@ kwargs1
                        ELSE kwargs1
             errs == valid_params.errors \o valid_body.errors
         IN IF errs # <<>> THEN _response_from_validation_error(errs) ELSE Kwargs(kwargs2)
    ELSE IF c.query_params_model.present
    THEN LET valid_params == model_validate(c.query_params_model.fields, ParamsDict(r), TRUE) IN
         IF ~valid_params.ok THEN _response_from_validation_error(valid_params.errors)
         ELSE Kwargs(model_dump_exclude_unset(valid_params))
    ELSE IF c.body_spec.present
    THEN LET valid_body == model_validate_json(c.body_spec.model, BodyBytes(r)) IN
         IF ~valid_body.ok THEN _response_from_validation_error(valid_body.errors)
         ELSE Kwargs(c.body_spec.param_name :> valid_body.value)
    ELSE Kwargs(ParamsDict(r))

parse_request(c, r) ==
    IF c.query_params_model.present /\ c.body_spec.present
    THEN LET valid_params == model_validate(c.query_params_model.fields, ParamsDict(r), TRUE)
             valid_body == model_validate_json(c.body_spec.model, BodyBytes(r))
             kwargs1 == IF valid_params.ok THEN model_dump_exclude_unset(valid_params) ELSE EmptyDict
             kwargs2 == IF valid_body.ok
                        THEN (c.body_spec.param_name :> valid_body.value) @@ kwargs1
                        ELSE kwargs1
             errs == valid_params.errors \o valid_body.errors
         IN IF errs # <<>> THEN _response_from_validation_error(errs) ELSE Kwargs(kwargs2)
    ELSE IF c.query_params_model.present
    THEN LET valid_params == model_validate(c.query_params_model.fields, ParamsDict(r), TRUE) IN
         IF ~valid_params.ok THEN _response_from_validation_error(valid_params.errors)
         ELSE Kwargs(model_dump_exclude_unset(valid_params))
    ELSE IF c.body_spec.present
    THEN LET valid_body == model_validate_json(c.body_spec.model, BodyBytes(r)) IN
         IF ~valid_body.ok THEN _response_from_validation_error(valid_body.errors)
         ELSE Kwargs(c.body_spec.param_name :> valid_body.value)
    ELSE Kwargs(EmptyDict)

----------------------------------------------------------------------------
(* _response_from_result *)

ResponseResult(resp) == [t |-> "response", v |-> resp]

\* Python truthiness of a str, bytes or None result
Truthy(res) == res.t \in {"str", "bytes"} /\ res.s # ""

_response_from_result(res) ==
    IF res.t = "response" THEN res.v
    ELSE IF res.t = "dict" THEN HttpResponse(JsonDict(res.d), 200, "application/json")
    ELSE IF res.t = "model" THEN HttpResponse(JsonModel(res), 200, "application/json")
    ELSE HttpResponse(IF Truthy(res) THEN res ELSE StrVal("Operation successful"), 200, "")

\* what a handler may return
HandlerResults ==
    { None, StrVal(""), StrVal("Hello, World!"), BytesVal(""), BytesVal("Hello, World!"),
      DictVal("status" :> StrVal("ok")),
      ModelInstance("UserBody", ("name" :> StrVal("Alice")) @@ ("age" :> IntVal(25))
                                @@ ("email" :> None)),
      ResponseResult(HttpResponse(StrVal("created"), 201, "")),
      ResponseResult(HttpResponse(StrVal("not found"), 404, "")) }

----------------------------------------------------------------------------
(* The decorator and the wrapped handler *)

\* inspect.iscoroutinefunction(handler)
_is_async_handler(h) == h.is_async

\* the early return never taken
IsHttpResponseNever(x) == FALSE

\* isinstance(kwargs_or_response, HttpResponse)
IsHttpResponse(x) == x.kind = "response"

NoContract == [status |-> "none", body_spec |-> NoBodySpec, query_params_model |-> NoQueryModel]
NoParse == [kind |-> "none", kwargs |-> EmptyDict, response |-> NoResponse, errors |-> <<>>]

Init ==
    /\ handler \in Handlers
    /\ contract = NoContract
    /\ pc = "decorating"
    /\ req = NoRequest
    /\ kwargs_or_response = NoParse
    /\ errors = <<>>
    /\ result = None
    /\ response = NoResponse
    /\ trace = <<>>

\* validate_request(handler): analyse the signature, build the parser and the wrapper
Decorate ==
    /\ pc = "decorating"
    /\ contract' = _validate_handler_signature(handler.sig)
    /\ pc' = IF contract'.status = "ok" THEN "idle" ELSE "invalid_handler"
    /\ UNCHANGED <<handler, req, kwargs_or_response, errors, result, response, trace>>

\* the wrapper is called with a request: parse it, return the diagnostic
\* response or call the handler
WrapperCall(r) ==
    /\ pc = "idle"
    /\ req' = r
    /\ kwargs_or_response' = parse_request(contract, r)
    /\ errors' = kwargs_or_response'.errors
    /\ result' = None
    /\ IF kwargs_or_response'.kind = "raise"
       THEN /\ pc' = "raised"
            /\ response' = NoResponse
            /\ trace' = <<"parse">>
       ELSE IF IsHttpResponse(kwargs_or_response')
       THEN /\ pc' = "responded"
            /\ response' = kwargs_or_response'.response
            /\ trace' = <<"parse", "return">>
       ELSE /\ pc' = IF _is_async_handler(handler) THEN "awaiting" ELSE "calling"
            /\ response' = NoResponse
            /\ trace' = <<"parse", "invoke">>
    /\ UNCHANGED <<handler, contract>>

\* the handler returns res
HandlerReturn(res) ==
    /\ pc \in {"awaiting", "calling"}
    /\ result' = res
    /\ pc' = "returned"
    /\ trace' = Append(trace, "result")
    /\ UNCHANGED <<handler, contract, req, kwargs_or_response, errors, response>>

\* the handler raises: the wrapper does not catch it
HandlerRaise ==
    /\ pc \in {"awaiting", "calling"}
    /\ pc' = "raised"
    /\ trace' = Append(trace, "exception")
    /\ UNCHANGED <<handler, contract, req, kwargs_or_response, errors, result, response>>

\* return _response_from_result(result)
Normalize ==
    /\ pc = "returned"
    /\ response' = _response_from_result(result)
    /\ pc' = "responded"
    /\ trace' = Append(trace, "normalize")
    /\ UNCHANGED <<handler, contract, req, kwargs_or_response, errors, result>>

\* the call is over: the wrapper's frame is gone, the next request can come
WrapperExit ==
    /\ pc \in {"responded", "raised"}
    /\ pc' = "idle"
    /\ req' = NoRequest
    /\ kwargs_or_response' = NoParse
    /\ errors' = <<>>
    /\ result' = None
    /\ response' = NoResponse
    /\ trace' = <<>>
    /\ UNCHANGED <<handler, contract>>

Next ==
    \/ Decorate
    \/ \E r \in Requests : WrapperCall(r)
    \/ \E res \in HandlerResults : HandlerReturn(res)
    \/ HandlerRaise
    \/ Normalize
    \/ WrapperExit

Spec == Init /\ [][Next]_vars

----------------------------------------------------------------------------
(* The formatter on its own: any list of errors, any location path *)

LocSegments == {Seg("items"), Seg("name"), Idx(2)}

RECURSIVE LocsOfLen(_)
LocsOfLen(n) ==
    IF n = 0 THEN {<<>>}
    ELSE {Append(loc, x) : loc \in LocsOfLen(n - 1), x \in LocSegments}

Locs == UNION {LocsOfLen(n) : n \in 0..MaxLocLen}

RECURSIVE ErrorListsOfLen(_)
ErrorListsOfLen(n) ==
    IF n = 0 THEN {<<>>}
    ELSE {Append(es, ErrorDetails("missing", loc, "Field required", StrVal("x"))) :
            es \in ErrorListsOfLen(n - 1), loc \in Locs}

ErrorLists == UNION {ErrorListsOfLen(n) : n \in 0..MaxErrors}

NoHandler == [sig |-> <<>>, is_async |-> FALSE]

InitFormat ==
    /\ handler = NoHandler
    /\ contract = NoContract
    /\ pc = "formatting"
    /\ req = NoRequest
    /\ kwargs_or_response = NoParse
    /\ errors \in ErrorLists
    /\ result = None
    /\ response = NoResponse
    /\ trace = <<>>

\* _response_from_validation_error(errors)
Format ==
    /\ pc = "formatting"
    /\ kwargs_or_response' = _response_from_validation_error(errors)
    /\ response' = kwargs_or_response'.response
    /\ pc' = IF kwargs_or_response'.kind = "raise" THEN "raised" ELSE "formatted"
    /\ UNCHANGED <<handler, contract, req, errors, result, trace>>

NextFormat == Format

SpecFormat == InitFormat /\ [][NextFormat]_vars

----------------------------------------------------------------------------
(* Properties *)

Parsed == kwargs_or_response.kind # "none"

Invocations == Cardinality({i \in 1..Len(trace) : trace[i] = "invoke"})

HasQuery == contract.status = "ok" /\ contract.query_params_model.present
HasBody == contract.status = "ok" /\ contract.body_spec.present
CarrierOnly == contract.status = "ok" /\ ~contract.query_params_model.present
               /\ ~contract.body_spec.present

QueryErrors == model_validate(contract.query_params_model.fields, ParamsDict(req), TRUE).errors
BodyErrors == model_validate_json(contract.body_spec.model, BodyBytes(req)).errors

C2_BothValidated ==
    (HasQuery /\ HasBody /\ Parsed) =>
        /\ errors = QueryErrors \o BodyErrors
        /\ (kwargs_or_response.kind = "kwargs") <=> (QueryErrors = <<>> /\ BodyErrors = <<>>)
        /\ (QueryErrors = <<>> /\ BodyErrors # <<>>) => errors = BodyErrors
        /\ (QueryErrors # <<>> /\ BodyErrors = <<>>) => errors = QueryErrors
        /\ kwargs_or_response.kind = "response" =>
              Len(response.body.payload["errors"]) = Len(QueryErrors) + Len(BodyErrors)

C2_Witness ==
    /\ HasQuery /\ HasBody /\ pc = "responded"
    /\ QueryErrors # <<>> /\ BodyErrors # <<>>
    /\ kwargs_or_response.kind = "response"

\* C3: a text or binary result, the empty ones included, is the response
\* body verbatim with status 200, and "Operation successful" is the body when
\* and only when the handler returned nothing.
C3_Verbatim ==
    (pc = "responded" /\ kwargs_or_response.kind = "kwargs") =>
        /\ result.t \in {"str", "bytes"} =>
              response.body = result /\ response.status_code = 200
        /\ result.t = "None" =>
              response.body = StrVal("Operation successful") /\ response.status_code = 200
        /\ response.body = StrVal("Operation successful") => result.t = "None"

\* C4 as stated: a handler declaring only the request carrier always
\* answers with status 200.
C4_Always200 ==
    (CarrierOnly /\ pc = "responded") => response.status_code = 200

\* C4: for a handler declaring only the request carrier, the parse succeeds
\* with no bound arguments whatever the request holds, and the response is
\* the normalisation of the handler's result: the handler's own response
\* object unchanged, status 200 otherwise.
C4_CarrierOnly ==
    CarrierOnly =>
        /\ kwargs_or_response.kind \in {"none", "kwargs"}
        /\ kwargs_or_response.kwargs = EmptyDict
        /\ errors = <<>>
        /\ pc = "responded" =>
              /\ result.t = "response" => response = result.v
              /\ result.t # "response" => response.status_code = 200
              /\ result.t = "None" => response.body = StrVal("Operation successful")

C4_Witness ==
    /\ CarrierOnly /\ pc = "responded"
    /\ req.body = "not json" /\ DOMAIN req.params = QueryKeys
    /\ result.t = "None"

\* the rendering C5 describes: an integer segment in brackets right after
\* what precedes it, the other segments joined by dots
RECURSIVE ClaimedParam(_)
ClaimedParam(loc) ==
    IF loc = <<>> THEN ""
    ELSE LET init == SubSeq(loc, 1, Len(loc) - 1)
             last == loc[Len(loc)]
         IN IF last.is_int THEN ClaimedParam(init) \o "[" \o ToString(last.n) \o "]"
            ELSE IF init = <<>> THEN last.s
            ELSE ClaimedParam(init) \o "." \o last.s

\* C5: the formatter renders (items, 2, name) as items[2].name, and answers
\* status 400 with a JSON body whose single key errors holds one entry per
\* error, in order.
C5_Rendering ==
    pc = "formatted" =>
        /\ response.status_code = 400
        /\ DOMAIN response.body.payload = {"errors"}
        /\ Len(response.body.payload["errors"]) = Len(errors)
        /\ \A i \in 1..Len(errors) :
              /\ response.body.payload["errors"][i].param = ClaimedParam(errors[i].loc)
              /\ response.body.payload["errors"][i].reason = errors[i].msg
              /\ response.body.payload["errors"][i].type = errors[i].type
              /\ response.body.payload["errors"][i].input = errors[i].input

\* C6: a request whose input fails validation gets the 400 diagnostic
\* response; building that response never raises.
C6_AlwaysDiagnostic ==
    /\ kwargs_or_response.kind # "raise"
    /\ (Parsed /\ errors # <<>>) => (pc = "responded" /\ response.status_code = 400)

SchemaParams == {i \in 2..Len(handler.sig) : handler.sig[i].annotation \in ModelClasses}
ScalarParams == {i \in 2..Len(handler.sig) : handler.sig[i].annotation \notin ModelClasses}

AnalysisMustFail ==
    \/ Len(handler.sig) = 0
    \/ handler.sig[1].annotation \notin {"empty", "HttpRequest"}
    \/ Cardinality(SchemaParams) > 1

\* C7: the analysis fails exactly for a handler without parameters, with a
\* first parameter annotated as something else than the request, or with more
\* than one schema-typed parameter; otherwise the contract has at most one
\* body binding, one query binding per other parameter, required exactly when
\* the parameter has no default, and no name twice.
C7_Analysis ==
    contract.status # "none" =>
        /\ (contract.status = "InvalidRequestHandlerError") <=> AnalysisMustFail
        /\ contract.status = "ok" =>
              LET q == contract.query_params_model.fields
                  b == contract.body_spec
              IN /\ b.present <=> Cardinality(SchemaParams) = 1
                 /\ b.present => \E i \in SchemaParams :
                                    /\ handler.sig[i].name = b.param_name
                                    /\ handler.sig[i].annotation = b.model
                 /\ contract.query_params_model.present <=> ScalarParams # {}
                 /\ Len(q) = Cardinality(ScalarParams)
                 /\ \A i \in ScalarParams : \E j \in 1..Len(q) :
                        /\ q[j].name = handler.sig[i].name
                        /\ q[j].required <=> ~handler.sig[i].has_default
                 /\ \A j, k \in 1..Len(q) : j # k => q[j].name # q[k].name
                 /\ b.present => \A j \in 1..Len(q) : q[j].name # b.param_name

C7_Witness ==
    /\ pc = "idle" /\ HasBody /\ HasQuery
    /\ \E j \in 1..Len(contract.query_params_model.fields) :
          ~contract.query_params_model.fields[j].required

\* C8: a request that omits a required query parameter gets a 400 response
\* with an error whose param is that parameter's name, and the handler is
\* not invoked, with or without a body binding.
C8_MissingRequired ==
    (HasQuery /\ Parsed) =>
        \A j \in 1..Len(contract.query_params_model.fields) :
            LET f == contract.query_params_model.fields[j] IN
            (f.required /\ f.name \notin DOMAIN req.params) =>
                /\ pc = "responded"
                /\ response.status_code = 400
                /\ \E i \in 1..Len(response.body.payload["errors"]) :
                      response.body.payload["errors"][i].param = f.name
                /\ Invocations = 0

DeclaredNames == {handler.sig[i].name : i \in 2..Len(handler.sig)}

\* C9: the bound arguments' keys are declared parameter names; their query
\* part is exactly the supplied keys that are query bindings.
C9_BoundKeys ==
    kwargs_or_response.kind = "kwargs" =>
        LET kw == kwargs_or_response.kwargs
            body_keys == IF contract.body_spec.present
                         THEN {contract.body_spec.param_name} ELSE {}
        IN /\ DOMAIN kw \subseteq DeclaredNames
           /\ body_keys \subseteq DOMAIN kw
           /\ (DOMAIN kw) \ body_keys
                 = DOMAIN req.params \cap FieldNames(contract.query_params_model.fields)

C9_Witness ==
    /\ kwargs_or_response.kind = "kwargs" /\ HasQuery /\ HasBody
    /\ "zz" \in DOMAIN req.params
    /\ "p1" \in DOMAIN kwargs_or_response.kwargs
    /\ \E j \in 1..Len(contract.query_params_model.fields) :
          contract.query_params_model.fields[j].name \notin DOMAIN req.params

IsRequired(f) == f.required

\* C10: with a body binding, an empty payload is parsed exactly as the
\* payload {}: a missing error for every required body field, or the
\* all-default value bound under the body parameter's name.
C10_EmptyBody ==
    (HasBody /\ Parsed /\ req.body = "") =>
        LET fields == ModelFields(contract.body_spec.model) IN
        /\ kwargs_or_response = parse_request(contract, [req EXCEPT !.body = "{}"])
        /\ \A i \in 1..Len(fields) : fields[i].required =>
              \E j \in 1..Len(errors) :
                  /\ errors[j].type = "missing"
                  /\ errors[j].loc = <<Seg(fields[i].name)>>
        /\ kwargs_or_response.kind = "kwargs" =>
              kwargs_or_response.kwargs[contract.body_spec.param_name]
                = ModelInstance(contract.body_spec.model,
                                [name \in FieldNames(fields) |-> None])
        /\ SelectSeq(fields, IsRequired) # <<>> => kwargs_or_response.kind = "response"

C10_Witness ==
    /\ HasBody /\ HasQuery /\ pc = "responded" /\ req.body = ""
    /\ kwargs_or_response.kind = "response"
    /\ Len(errors) = 2

====
